---- MODULE Spec2Model ----
(***************************************************************************)
(* The execution stream client of the chat front-end: ChatProvider's run   *)
(* state (isAiTyping, aiAnswer, langgraphJson, executionPath, activeChat), *)
(* the WebSockets opened by handleAiAnswer with their four callbacks, the  *)
(* submit path InputMessage.handleSubmit -> ChatCard.                      *)
(* handleSendMessageInActiveChat -> sendMessage -> handleAiAnswer, and the *)
(* edge emphasis computed by LanggraphViz.                                 *)
(*                                                                         *)
(* Every callback of the single-threaded event loop is one atomic action.  *)
(* The server is an external collaborator: on an open connection it may    *)
(* send any event of the protocol at any time, also after stream_end (the  *)
(* client never closes a socket and ws.onmessage accepts every order).     *)
(*                                                                         *)
(* ChatProvider's messages, error and loading flags are left out:          *)
(* fetchMessages writes only those, and no callback of a run reads them.   *)
(* The chat list is taken as loaded (selectChat finds the id); of each     *)
(* preview in it only the graph_id is kept.                                *)
(* aiAnswer is kept as the sequence of the pieces concatenated into it, so *)
(* that replacing differs from appending and "" is the empty sequence.     *)
(*                                                                         *)
(* The graph builder: WorkflowBuilder's working copy (nodes, edges,        *)
(* entryNode), its save request handleSaveGraph with every way the         *)
(* persistence endpoint can answer, and GraphProvider's graphId with the   *)
(* fetch its effect starts when ChatAgentsSetting reports another chat.    *)
(* The canvas is the reactflow library: addEdge drops a connection whose   *)
(* source and target already have an edge, and deleting a node hands       *)
(* onNodesChange the removal of the node and onEdgesChange the removal of  *)
(* the edges connected to it.                                              *)
(* The backend is an external collaborator: it keeps one graph id per chat *)
(* (serverGraph), sets it when it accepts a definition, and reports it in  *)
(* GET /chats/{id} and in the chat list.                                   *)
(*                                                                         *)
(* The trace renderer: what LanggraphViz renders is a function of          *)
(* langgraphJson and executionPath (layoutedElements), evaluated whenever  *)
(* ChatCard shows the component (RendererShown); the positions dagre       *)
(* assigns are left out, the runs of the layout are kept (LayoutRuns).     *)
(***************************************************************************)
EXTENDS Integers, Sequences, FiniteSets, TLC

VARIABLES
    activeChat,     \* ChatProvider.activeChat (its id; NoChat for null)
    isAiTyping,     \* ChatProvider.isAiTyping
    aiAnswer,       \* ChatProvider.aiAnswer: the text as a sequence of chunks
    langgraphJson,  \* ChatProvider.langgraphJson
    executionPath,  \* ChatProvider.executionPath
    sockets,        \* the WebSockets created by handleAiAnswer, in creation order
    pending,        \* submits suspended at `await sendMessage(message)`
    last,           \* history: the callback that ran last, and its event
    entryNode,      \* WorkflowBuilder.entryNode (NoEntry for null)
    nodes,          \* WorkflowBuilder.nodes: [id, entryStyle] in canvas order
    edges,          \* WorkflowBuilder.edges: [source, target, label] in array order
    isSubmitting,   \* WorkflowBuilder.isSubmitting
    error,          \* WorkflowBuilder.error (NoError for null)
    saves,          \* POST /graphs/ requests handleSaveGraph is awaiting
    graphId,        \* GraphProvider.graphId (NoGraphId for null)
    activeChatId,   \* GraphProvider.activeChatId (NoChat for null)
    fetches,        \* GET /chats/{id} requests of GraphProvider's effect
    chats,          \* ChatProvider.chats: the graph_id of each ChatPreview
    activeChatGraphId,  \* activeChat.graph_id, the preview selectChat found
    serverGraph,    \* backend: the graph id stored for each chat
    saved           \* history: the chat and id of the save that succeeded last

builderVars == <<entryNode, nodes, edges, isSubmitting, error, saves>>

graphVars == <<graphId, activeChatId, fetches, chats, activeChatGraphId,
               serverGraph, saved>>

vars == <<activeChat, isAiTyping, aiAnswer, langgraphJson, executionPath,
          sockets, pending, last, builderVars, graphVars>>

execState == <<executionPath, langgraphJson, aiAnswer, isAiTyping>>

----------------------------------------------------------------------------
(* Bounds *)

MaxRuns == 2        \* submits (suspended or turned into a socket) in a behaviour
MaxAnswerLen == 3   \* chunks of aiAnswer beyond which no event appends
MaxPathLen == 3     \* length of the path a stream_end event carries, or a render starts from
MaxEdges == 2       \* edges on the builder's canvas, or of a graph drawn for the renderer
MaxFetches == 2     \* GET /chats/{id} requests in flight

----------------------------------------------------------------------------
(* Values *)

NoChat == 0                   \* activeChat === null
Chats == {1, 2}               \* ids of the chats in ChatProvider.chats
NoGraphId == 0                \* graphId null / undefined (falsy, like 0)
GraphIds == {NoGraphId, 1}    \* graphId ?? activeChat?.graph_id
Nodes == {"X", "Y", "Z"}
StartNode == "__start__"
Absent == "<absent>"          \* a field the JSON message does not have

\* JavaScript truthiness of an optional string field
Truthy(s) == s # Absent /\ s # ""

Chunk(kind, node, data) == [kind |-> kind, node |-> node, data |-> data]
NoticeText == <<Chunk("notice", "", "")>>
PlaceholderText == <<Chunk("placeholder", "", "")>>
ConnectionErrorText == <<Chunk("connection_error", "", "")>>
Section(node, data) == <<Chunk("section", node, data)>>
ErrorAnnotation(data) == <<Chunk("error", "", data)>>
Text(s) == IF s = "" THEN <<>> ELSE <<Chunk("text", "", s)>>

Edge(s, t) == [source |-> s, target |-> t]
NullGraph == [isNull |-> TRUE, nodes |-> <<>>, edges |-> <<>>]
ChainGraph == [isNull |-> FALSE, nodes |-> <<"X", "Y", "Z">>,
               edges |-> <<Edge("X", "Y"), Edge("Y", "Z")>>]
Graphs == {ChainGraph}

SeqsUpTo(S, n) == UNION {[1..k -> S] : k \in 0..n}

NoEntry == "<null>"           \* entryNode === null
NoError == "<null>"           \* error === null
Agents == {"A", "B"}          \* agent.id.toString() of the agents of a chat
AssignedIds == {1, 2}         \* the ids the persistence endpoint hands out
Conditions == {"", "yes", "no"}   \* what prompt() returns ("" also for Cancel)

\* activeChatAgents: the agents of a chat, each once, in the order fetched
Rosters == {r \in SeqsUpTo(Agents, Cardinality(Agents)) :
               \A i, j \in 1..Len(r) : r[i] = r[j] => i = j}

Node(id, styled) == [id |-> id, entryStyle |-> styled]
BuilderEdge(s, t, l) == [source |-> s, target |-> t, label |-> l]

MissingEntryText == "Musite zvolit pocatecniho agenta"
DefaultSaveErrorText == "Nepodarilo se ulozit graf."
FetchFailedText == "Failed to fetch"          \* the TypeError of a rejected fetch
JsonSyntaxText == "Unexpected token"          \* the SyntaxError of response.json()

NoSave == [chat |-> NoChat, id |-> NoGraphId]

\* how POST /graphs/ ends: fetch rejects ("network"), a non-2xx response with
\* a JSON body ("not_ok", its detail) or without one ("not_ok_unparseable"),
\* a 2xx response with a JSON body ("ok", its id) or without one
Outcome(kind, detail, id) == [kind |-> kind, detail |-> detail, id |-> id]
SaveOutcomes ==
    {Outcome("network", Absent, NoGraphId),
     Outcome("not_ok_unparseable", Absent, NoGraphId),
     Outcome("ok_unparseable", Absent, NoGraphId)}
    \cup {Outcome("not_ok", d, NoGraphId) : d \in {Absent, "detail"}}
    \cup {Outcome("ok", Absent, g) : g \in AssignedIds \cup {NoGraphId}}

Message(type, node, data, hasPath, path, fa, graph) ==
    [type |-> type, node |-> node, data |-> data, hasPath |-> hasPath,
     path |-> path, final_answer |-> fa, graph |-> graph]
NoMessage == Message("none", "", Absent, FALSE, <<>>, Absent, NullGraph)

GraphJson(g) == Message("graph_json", "", Absent, FALSE, <<>>, Absent, g)
NodeOutput(n, d) == Message("node_output", n, d, FALSE, <<>>, Absent, NullGraph)
StreamEnd(p, fa) == Message("stream_end", "", Absent, TRUE, p, fa, NullGraph)
StreamEndNoPath(fa) == Message("stream_end", "", Absent, FALSE, <<>>, fa, NullGraph)
ErrorEvent(d) == Message("error", "", d, FALSE, <<>>, Absent, NullGraph)
\* a JSON object whose type no case of the switch names
UnknownTypeEvent == Message("ping", "", Absent, FALSE, <<>>, Absent, NullGraph)
\* text that JSON.parse rejects
NotJson == Message("<not json>", "", Absent, FALSE, <<>>, Absent, NullGraph)

\* the messages of the protocol whose node ids are drawn from `ids`
MessagesOver(ids) ==
    {GraphJson(g) : g \in Graphs}
    \cup {NodeOutput(n, d) : n \in ids, d \in {Absent, "out"}}
    \cup {StreamEnd(p, fa) : p \in SeqsUpTo(ids, MaxPathLen), fa \in {Absent, "", "done"}}
    \cup {StreamEndNoPath(fa) : fa \in {Absent, "done"}}
    \cup {ErrorEvent("boom")}

----------------------------------------------------------------------------
(* The pure parts of ws.onmessage *)

Includes(path, n) == \E i \in 1..Len(path) : path[i] = n

Count(path, n) == Cardinality({i \in 1..Len(path) : path[i] = n})

NoDuplicates(path) == \A i, j \in 1..Len(path) : path[i] = path[j] => i = j

\* a faulty updater: appends without looking at the path
NodeOutputPathAlwaysAppends(prevPath, node) == Append(prevPath, node)

\* a faulty updater: compares with the last entry only
NodeOutputPathLastEntry(prevPath, node) ==
    IF prevPath = <<>> \/ prevPath[Len(prevPath)] # node
    THEN Append(prevPath, node) ELSE prevPath

\* the updater passed to setExecutionPath in case 'node_output'
NodeOutputPath(prevPath, node) ==
    IF ~Includes(prevPath, node) THEN Append(prevPath, node) ELSE prevPath

\* setAiAnswer in case 'node_output'
NodeOutputAnswer(prev, node, data) ==
    IF Truthy(data) THEN prev \o Section(node, data) ELSE prev

\* a faulty stream_end: appends its path to the accumulated one
StreamEndPathAppends(prevPath, m) == prevPath \o (IF m.hasPath THEN m.path ELSE <<>>)

\* setExecutionPath(message.path || []) in case 'stream_end'
StreamEndPath(prevPath, m) == IF m.hasPath THEN m.path ELSE <<>>

\* if (message.final_answer) setAiAnswer(message.final_answer)
StreamEndAnswer(prev, fa) == IF Truthy(fa) THEN Text(fa) ELSE prev

\* setAiAnswer(prev => prev + `\n**CHYBA:** ${message.data}`)
ErrorAnswer(prev, data) == prev \o ErrorAnnotation(data)

----------------------------------------------------------------------------
(* LanggraphViz: the emphasis of the edges *)

NoOrder == 0                  \* order === null

Min(S) == CHOOSE x \in S : \A y \in S : x <= y

\* a faulty order: the 0-based loop index
EdgeOrderZeroBased(path, e) ==
    LET hits == {j \in 0..(Len(path) - 2) :
                    path[j + 1] = e.source /\ path[j + 2] = e.target}
    IN  IF hits = {} THEN NoOrder ELSE Min(hits)

\* a faulty order: the position of the last occurrence of the pair
EdgeOrderLastOccurrence(path, e) ==
    LET hits == {j \in 0..(Len(path) - 2) :
                    path[j + 1] = e.source /\ path[j + 2] = e.target}
    IN  IF hits = {} THEN NoOrder ELSE (CHOOSE x \in hits : \A y \in hits : y <= x) + 1

\* the loop over safeExecutionPath that finds the first consecutive pair
EdgeOrder(path, e) ==
    LET hits == {j \in 0..(Len(path) - 2) :
                    path[j + 1] = e.source /\ path[j + 2] = e.target}
    IN  IF hits = {} THEN NoOrder ELSE Min(hits) + 1

initialEdges(graph, path) ==
    [i \in 1..Len(graph.edges) |->
        LET e == graph.edges[i]
            order == EdgeOrder(path, e)
        IN  [source |-> e.source, target |-> e.target,
             animated |-> order # NoOrder, label |-> order]]

\* style.stroke and style.strokeWidth of a rendered edge
EdgeStyle(e) ==
    [stroke |-> IF e.animated THEN "#10B981" ELSE "#9CA3AF",
     strokeWidth |-> IF e.animated THEN 2 ELSE 1]

\* new Set(safeExecutionPath)
pathNodes(path) == {path[i] : i \in 1..Len(path)}

\* safeExecutionPath.length > 0
hasPath(path) == Len(path) > 0

\* a faulty node list: one rendered node per entry of the path
NodesFromPath(graph, path) ==
    [i \in 1..Len(path) |->
        [id |-> path[i], border |-> "2px solid #10B981",
         background |-> "#ddf4e4", opacity |-> 10]]

\* langgraphJson.nodes.map(...); the opacity is counted in tenths
NodesFromGraph(graph, path) ==
    [i \in 1..Len(graph.nodes) |->
        LET id == graph.nodes[i]
            onPath == id \in pathNodes(path)
        IN  [id |-> id,
             border |-> IF onPath THEN "2px solid #10B981" ELSE "1px solid #9CA3AF",
             background |-> IF onPath THEN "#ddf4e4" ELSE "#fff",
             opacity |-> IF hasPath(path) THEN (IF onPath THEN 10 ELSE 4) ELSE 10]]

\* the value of the useMemo: reading langgraphJson.nodes of null throws
layoutedElements(graph, path) ==
    IF graph.isNull
    THEN [failed |-> TRUE, nodes |-> <<>>, edges |-> <<>>]
    ELSE [failed |-> FALSE, nodes |-> NodesFromGraph(graph, path),
          edges |-> initialEdges(graph, path)]

\* every graph over the nodes X, Y: one or both nodes, up to MaxEdges edges
\* between its own nodes
RenderGraphs ==
    LET all == {[isNull |-> FALSE, nodes |-> ns, edges |-> es] :
                   ns \in {<<"X">>, <<"X", "Y">>},
                   es \in SeqsUpTo({Edge(s, t) : s, t \in {"X", "Y"}}, MaxEdges)}
    IN  {g \in all : \A i \in 1..Len(g.edges) :
                        {g.edges[i].source, g.edges[i].target} \subseteq pathNodes(g.nodes)}

----------------------------------------------------------------------------
(* Sockets *)

Socket(chat, graph) ==
    [chat |-> chat, graphId |-> graph, readyState |-> "CONNECTING", sent |-> 0]

\* a connection whose callbacks can still run
Live(sk) == sk.readyState \in {"CONNECTING", "OPEN"}

Record(handler, sock, m) == [handler |-> handler, sock |-> sock, msg |-> m]

Init ==
    /\ activeChat = NoChat
    /\ isAiTyping = FALSE
    /\ aiAnswer = <<>>
    /\ langgraphJson = NullGraph
    /\ executionPath = <<>>
    /\ sockets = <<>>
    /\ pending = <<>>
    /\ last = Record("init", 0, NoMessage)
    /\ entryNode = NoEntry
    /\ nodes = <<>>
    /\ edges = <<>>
    /\ isSubmitting = FALSE
    /\ error = NoError
    /\ saves = <<>>
    /\ graphId = NoGraphId
    /\ activeChatId = NoChat
    /\ fetches = <<>>
    /\ chats = [c \in Chats |-> NoGraphId]
    /\ activeChatGraphId = NoGraphId
    /\ serverGraph = [c \in Chats |-> NoGraphId]
    /\ saved = NoSave

\* setActiveChat in selectChat(chatID) and in createNewChat
SetActiveChat(c) ==
    /\ c # activeChat
    /\ activeChat' = c
    /\ last' = Record("selectChat", 0, NoMessage)
    /\ UNCHANGED <<isAiTyping, aiAnswer, langgraphJson, executionPath, sockets, pending>>

\* selectChat(chatID), and createNewChat's setActiveChat(newChat), as the run
\* state sees it: the graph id a later submit holds is drawn at the submit
SelectChat(c) ==
    /\ SetActiveChat(c)
    /\ UNCHANGED <<builderVars, graphVars>>

RemoveAt(s, k) == [i \in 1..(Len(s) - 1) |-> IF i < k THEN s[i] ELSE s[i + 1]]

\* InputMessage.handleSubmit -> handleSendMessageInActiveChat -> sendMessage,
\* up to its first await; g is the closure's graphId ?? activeChat?.graph_id
HandleSubmit(g, runs) ==
    /\ ~isAiTyping
    /\ activeChat # NoChat
    /\ Len(sockets) + Len(pending) < runs
    /\ isAiTyping' = TRUE
    /\ pending' = Append(pending, [chat |-> activeChat, graphId |-> g])
    /\ last' = Record("handleSubmit", 0, NoMessage)
    /\ UNCHANGED <<activeChat, aiAnswer, langgraphJson, executionPath, sockets>>
    /\ UNCHANGED <<builderVars, graphVars>>

\* a submit in a ChatCard without active chat: sendMessage returns at its
\* first test and handleAiAnswer takes its early return
HandleSubmitNoChat ==
    /\ ~isAiTyping
    /\ activeChat = NoChat
    /\ aiAnswer' = NoticeText
    /\ last' = Record("handleAiAnswer", 0, NoMessage)
    /\ UNCHANGED <<activeChat, isAiTyping, langgraphJson, executionPath, sockets, pending>>
    /\ UNCHANGED <<builderVars, graphVars>>

\* a faulty early return: the execution state is reset before the test
HandleAiAnswerNoGraphResets(k) ==
    /\ k \in 1..Len(pending)
    /\ pending[k].graphId = NoGraphId \/ pending[k].chat = NoChat
    /\ aiAnswer' = NoticeText
    /\ isAiTyping' = FALSE
    /\ langgraphJson' = NullGraph
    /\ executionPath' = <<StartNode>>
    /\ pending' = RemoveAt(pending, k)
    /\ last' = Record("handleAiAnswer", 0, NoMessage)
    /\ UNCHANGED <<activeChat, sockets>>
    /\ UNCHANGED <<builderVars, graphVars>>

\* sendMessage's finally, then handleAiAnswer's early return
HandleAiAnswerNoGraph(k) ==
    /\ k \in 1..Len(pending)
    /\ pending[k].graphId = NoGraphId \/ pending[k].chat = NoChat
    /\ aiAnswer' = NoticeText
    /\ isAiTyping' = FALSE
    /\ pending' = RemoveAt(pending, k)
    /\ last' = Record("handleAiAnswer", 0, NoMessage)
    /\ UNCHANGED <<activeChat, langgraphJson, executionPath, sockets>>
    /\ UNCHANGED <<builderVars, graphVars>>

\* sendMessage's finally, then handleAiAnswer opening the run's WebSocket
HandleAiAnswer(k) ==
    /\ k \in 1..Len(pending)
    /\ ~(pending[k].graphId = NoGraphId \/ pending[k].chat = NoChat)
    /\ aiAnswer' = PlaceholderText
    /\ isAiTyping' = TRUE
    /\ langgraphJson' = NullGraph
    /\ executionPath' = <<StartNode>>
    /\ sockets' = Append(sockets, Socket(pending[k].chat, pending[k].graphId))
    /\ pending' = RemoveAt(pending, k)
    /\ last' = Record("handleAiAnswer", Len(sockets) + 1, NoMessage)
    /\ UNCHANGED activeChat
    /\ UNCHANGED <<builderVars, graphVars>>

\* ws.onopen
OnOpen(i) ==
    /\ i \in 1..Len(sockets)
    /\ sockets[i].readyState = "CONNECTING"
    /\ sockets' = [sockets EXCEPT ![i].readyState = "OPEN", ![i].sent = @ + 1]
    /\ last' = Record("onopen", i, NoMessage)
    /\ UNCHANGED <<activeChat, isAiTyping, aiAnswer, langgraphJson, executionPath, pending>>
    /\ UNCHANGED <<builderVars, graphVars>>

\* ws.onmessage
OnMessage(i, m) ==
    /\ i \in 1..Len(sockets)
    /\ sockets[i].readyState = "OPEN"
    /\ (m.type = "error" \/ (m.type = "node_output" /\ Truthy(m.data)))
          => Len(aiAnswer) < MaxAnswerLen
    /\ CASE m.type = "graph_json" ->
              /\ langgraphJson' = m.graph
              /\ UNCHANGED <<aiAnswer, executionPath, isAiTyping>>
         [] m.type = "node_output" ->
              /\ aiAnswer' = NodeOutputAnswer(aiAnswer, m.node, m.data)
              /\ executionPath' = NodeOutputPath(executionPath, m.node)
              /\ UNCHANGED <<langgraphJson, isAiTyping>>
         [] m.type = "stream_end" ->
              /\ isAiTyping' = FALSE
              /\ executionPath' = StreamEndPath(executionPath, m)
              /\ aiAnswer' = StreamEndAnswer(aiAnswer, m.final_answer)
              /\ UNCHANGED langgraphJson
         [] m.type = "error" ->
              /\ aiAnswer' = ErrorAnswer(aiAnswer, m.data)
              /\ isAiTyping' = FALSE
              /\ UNCHANGED <<langgraphJson, executionPath>>
         [] OTHER ->     \* JSON.parse throws, or no case of the switch matches
              UNCHANGED execState
    /\ last' = Record("onmessage", i, m)
    /\ UNCHANGED <<activeChat, sockets, pending>>
    /\ UNCHANGED <<builderVars, graphVars>>

\* a faulty onerror: forgets the trace accumulated so far
OnErrorResets(i) ==
    /\ i \in 1..Len(sockets)
    /\ sockets[i].readyState \in {"CONNECTING", "OPEN"}
    /\ aiAnswer' = ConnectionErrorText
    /\ isAiTyping' = FALSE
    /\ executionPath' = <<>>
    /\ langgraphJson' = NullGraph
    /\ sockets' = [sockets EXCEPT ![i].readyState = "CLOSED"]
    /\ last' = Record("onerror", i, NoMessage)
    /\ UNCHANGED <<activeChat, pending>>
    /\ UNCHANGED <<builderVars, graphVars>>

\* ws.onerror, then ws.onclose: a failed connection fires both in one task
OnError(i) ==
    /\ i \in 1..Len(sockets)
    /\ sockets[i].readyState \in {"CONNECTING", "OPEN"}
    /\ aiAnswer' = ConnectionErrorText
    /\ isAiTyping' = FALSE
    /\ sockets' = [sockets EXCEPT ![i].readyState = "CLOSED"]
    /\ last' = Record("onerror", i, NoMessage)
    /\ UNCHANGED <<activeChat, langgraphJson, executionPath, pending>>
    /\ UNCHANGED <<builderVars, graphVars>>

\* ws.onclose of a connection the server closes
OnClose(i) ==
    /\ i \in 1..Len(sockets)
    /\ sockets[i].readyState = "OPEN"
    /\ isAiTyping' = FALSE
    /\ sockets' = [sockets EXCEPT ![i].readyState = "CLOSED"]
    /\ last' = Record("onclose", i, NoMessage)
    /\ UNCHANGED <<activeChat, aiAnswer, langgraphJson, executionPath, pending>>
    /\ UNCHANGED <<builderVars, graphVars>>

----------------------------------------------------------------------------
(* WorkflowBuilder *)

NodeIds(nds) == {nds[i].id : i \in 1..Len(nds)}

EdgeId(e) == <<e.source, e.target>>     \* reactflow's getEdgeId, no handles

\* activeChatAgents.map(...): the style is computed from the entryNode of the
\* render in which the roster changed
initialNodes(roster, entry) ==
    [i \in 1..Len(roster) |-> Node(roster[i], roster[i] = entry)]

\* reactflow's connectionExists and addEdge for a Connection without handles
connectionExists(s, t, eds) ==
    \E i \in 1..Len(eds) : eds[i].source = s /\ eds[i].target = t

addEdge(s, t, eds) ==
    IF connectionExists(s, t, eds) THEN eds
    ELSE Append(eds, BuilderEdge(s, t, Absent))

\* { ...e, label: condition || undefined } for the edge with that id
SetLabel(eds, id, condition) ==
    [i \in 1..Len(eds) |->
        IF EdgeId(eds[i]) = id
        THEN [eds[i] EXCEPT !.label = IF Truthy(condition) THEN condition ELSE Absent]
        ELSE eds[i]]

\* a faulty onNodeClick: a setter
SetEntry(entry, n) == n

\* entryNode === node.id ? null : node.id
ToggleEntry(entry, n) == IF entry = n THEN NoEntry ELSE n

\* a faulty validation: nothing is ever missing
EntryNeverMissing(entry) == FALSE

\* !entryNode
EntryMissing(entry) == entry = NoEntry \/ entry = ""

\* the body of the POST: graphData
graphData(chatId, nds, eds, entry) ==
    [chat_id |-> chatId,
     nodes |-> [i \in 1..Len(nds) |-> [id_in_graph |-> nds[i].id, agent_id |-> nds[i].id]],
     edges |-> [i \in 1..Len(eds) |->
                  [from_node_id_in_graph |-> eds[i].source,
                   to_node_id_in_graph |-> eds[i].target,
                   condition |-> IF Truthy(eds[i].label) THEN eds[i].label ELSE "null"]],
     entry_node_id_in_graph |-> entry]

SaveFails(o) == o.kind # "ok"

\* a faulty catch: a rejected fetch is not reported
SaveErrorSilent(prev, o) ==
    CASE o.kind = "network" -> prev
      [] o.kind = "not_ok" -> IF Truthy(o.detail) THEN o.detail ELSE DefaultSaveErrorText
      [] o.kind \in {"not_ok_unparseable", "ok_unparseable"} -> JsonSyntaxText
      [] OTHER -> prev

\* setError(err.message) in the catch
SaveError(prev, o) ==
    CASE o.kind = "network" -> FetchFailedText
      [] o.kind = "not_ok" -> IF Truthy(o.detail) THEN o.detail ELSE DefaultSaveErrorText
      [] o.kind \in {"not_ok_unparseable", "ok_unparseable"} -> JsonSyntaxText
      [] OTHER -> prev

\* a faulty handler: a failed save forgets the active graph
SaveGraphIdResetOnFailure(prev, o) ==
    IF o.kind = "ok" /\ o.id # NoGraphId THEN o.id
    ELSE IF SaveFails(o) THEN NoGraphId ELSE prev

\* if (data.id) setGraphId(data.id)
SaveGraphId(prev, o) == IF o.kind = "ok" /\ o.id # NoGraphId THEN o.id ELSE prev

\* the effect on [activeChatAgents]: ChatListOfAgents fetched the agents of the
\* chat, or an agent was added to or removed from it
RosterChange(roster) ==
    /\ activeChat # NoChat
    /\ nodes' = initialNodes(roster, entryNode)
    /\ edges' = <<>>
    /\ entryNode' = NoEntry
    /\ last' = Record("rosterChange", 0, [roster |-> roster])
    /\ UNCHANGED <<isSubmitting, error, saves>>
    /\ UNCHANGED <<activeChat, isAiTyping, aiAnswer, langgraphJson, executionPath,
                   sockets, pending, graphVars>>

\* onConnect: a connection dragged from node s to node t
OnConnect(s, t) ==
    /\ activeChat # NoChat
    /\ s \in NodeIds(nodes) /\ t \in NodeIds(nodes)
    /\ Len(addEdge(s, t, edges)) <= MaxEdges
    /\ edges' = addEdge(s, t, edges)
    /\ last' = Record("onConnect", 0, BuilderEdge(s, t, Absent))
    /\ UNCHANGED <<entryNode, nodes, isSubmitting, error, saves>>
    /\ UNCHANGED <<activeChat, isAiTyping, aiAnswer, langgraphJson, executionPath,
                   sockets, pending, graphVars>>

\* onEdgeClick: the clicked edge is removed
OnEdgeClick(k) ==
    /\ k \in 1..Len(edges)
    /\ edges' = SelectSeq(edges, LAMBDA e : EdgeId(e) # EdgeId(edges[k]))
    /\ last' = Record("onEdgeClick", 0, edges[k])
    /\ UNCHANGED <<entryNode, nodes, isSubmitting, error, saves>>
    /\ UNCHANGED <<activeChat, isAiTyping, aiAnswer, langgraphJson, executionPath,
                   sockets, pending, graphVars>>

\* onEdgeContextMenu: prompt() returned `condition` for the edge
OnEdgeContextMenu(k, condition) ==
    /\ k \in 1..Len(edges)
    /\ edges' = SetLabel(edges, EdgeId(edges[k]), condition)
    /\ last' = Record("onEdgeContextMenu", 0,
                      BuilderEdge(edges[k].source, edges[k].target, condition))
    /\ UNCHANGED <<entryNode, nodes, isSubmitting, error, saves>>
    /\ UNCHANGED <<activeChat, isAiTyping, aiAnswer, langgraphJson, executionPath,
                   sockets, pending, graphVars>>

\* onNodeClick
OnNodeClick(n) ==
    /\ n \in NodeIds(nodes)
    /\ entryNode' = ToggleEntry(entryNode, n)
    /\ nodes' = [i \in 1..Len(nodes) |->
                    Node(nodes[i].id, nodes[i].id = ToggleEntry(entryNode, n))]
    /\ last' = Record("onNodeClick", 0, [node |-> n])
    /\ UNCHANGED <<edges, isSubmitting, error, saves>>
    /\ UNCHANGED <<activeChat, isAiTyping, aiAnswer, langgraphJson, executionPath,
                   sockets, pending, graphVars>>

\* the delete key on node n (selected by the click on it or by a selection
\* box): reactflow hands onNodesChange the removal of n and onEdgesChange the
\* removal of the edges connected to n
OnNodesChange(n) ==
    /\ n \in NodeIds(nodes)
    /\ nodes' = SelectSeq(nodes, LAMBDA nd : nd.id # n)
    /\ edges' = SelectSeq(edges, LAMBDA e : e.source # n /\ e.target # n)
    /\ last' = Record("onNodesChange", 0, [node |-> n])
    /\ UNCHANGED <<entryNode, isSubmitting, error, saves>>
    /\ UNCHANGED <<activeChat, isAiTyping, aiAnswer, langgraphJson, executionPath,
                   sockets, pending, graphVars>>

\* the save button (disabled={isSubmitting || nodes.length < 1}) and
\* handleSaveGraph up to its return or its first await. The request in flight
\* keeps the chat_id of its body: the endpoint's answer is drawn by the
\* environment whatever the rest of graphData is.
HandleSaveGraph ==
    /\ activeChat # NoChat
    /\ ~isSubmitting /\ Len(nodes) >= 1
    /\ IF EntryMissing(entryNode)
       THEN /\ error' = MissingEntryText
            /\ isSubmitting' = FALSE
            /\ last' = Record("handleSaveGraph", 0, [sent |-> FALSE])
            /\ UNCHANGED <<saves, saved>>
       ELSE /\ error' = NoError
            /\ isSubmitting' = TRUE
            /\ saves' = Append(saves, [chat_id |->
                            graphData(activeChat, nodes, edges, entryNode).chat_id])
            /\ saved' = NoSave
            /\ last' = Record("handleSaveGraph", 0, [sent |-> TRUE])
    /\ UNCHANGED <<entryNode, nodes, edges>>
    /\ UNCHANGED <<graphId, activeChatId, fetches, chats, activeChatGraphId, serverGraph>>
    /\ UNCHANGED <<activeChat, isAiTyping, aiAnswer, langgraphJson, executionPath,
                   sockets, pending>>

\* handleSaveGraph from `await fetch` to the end of its finally; a definition
\* the endpoint accepts becomes the graph of the chat at the backend
SaveResponse(k, o) ==
    /\ k \in 1..Len(saves)
    /\ error' = SaveError(error, o)
    /\ isSubmitting' = FALSE
    /\ graphId' = SaveGraphId(graphId, o)
    /\ IF o.kind = "ok" /\ o.id # NoGraphId
       THEN /\ serverGraph' = [serverGraph EXCEPT ![saves[k].chat_id] = o.id]
            /\ saved' = [chat |-> saves[k].chat_id, id |-> o.id]
       ELSE UNCHANGED <<serverGraph, saved>>
    /\ saves' = RemoveAt(saves, k)
    /\ last' = Record("saveResponse", 0, o)
    /\ UNCHANGED <<entryNode, nodes, edges>>
    /\ UNCHANGED <<activeChatId, fetches, chats, activeChatGraphId>>
    /\ UNCHANGED <<activeChat, isAiTyping, aiAnswer, langgraphJson, executionPath,
                   sockets, pending>>

\* the builder of one chat: its canvas handlers and its save, fed the given
\* rosters, prompt() results and answers of the persistence endpoint
NextBuilderOver(rosters, conditions, outcomes) ==
    \/ SelectChat(1)
    \/ \E r \in rosters : RosterChange(r)
    \/ \E s, t \in Agents : OnConnect(s, t)
    \/ \E k \in 1..MaxEdges : OnEdgeClick(k)
    \/ \E k \in 1..MaxEdges, c \in conditions : OnEdgeContextMenu(k, c)
    \/ \E n \in Agents : OnNodeClick(n)
    \/ \E n \in Agents : OnNodesChange(n)
    \/ HandleSaveGraph
    \/ \E o \in outcomes : SaveResponse(1, o)

----------------------------------------------------------------------------
(* GraphProvider, and ChatCard's choice of the graph id of a run *)

Fetch(c) == [chat |-> c, answered |-> FALSE, graph_id |-> NoGraphId]

\* graphId ?? activeChat?.graph_id ?? undefined
EffectiveGraphId == IF graphId # NoGraphId THEN graphId ELSE activeChatGraphId

\* selectChat(c) with the panel of the chat on screen: activeChat is the
\* preview found in chats; ChatAgentsSetting's effect calls setActiveChatId(c),
\* and GraphProvider's effect on [activeChatId] starts the fetch of the chat
SelectChatMounted(c) ==
    /\ c # NoChat
    /\ SetActiveChat(c)
    /\ activeChatGraphId' = chats[c]
    /\ IF c # activeChatId
       THEN /\ Len(fetches) < MaxFetches
            /\ activeChatId' = c
            /\ fetches' = Append(fetches, Fetch(c))
       ELSE UNCHANGED <<activeChatId, fetches>>
    /\ saved' = NoSave
    /\ UNCHANGED <<graphId, chats, serverGraph, builderVars>>

\* the backend answers GET /chats/{id} with the chat as it is stored
FetchServer(k) ==
    /\ k \in 1..Len(fetches)
    /\ ~fetches[k].answered
    /\ fetches' = [fetches EXCEPT ![k].answered = TRUE,
                                  ![k].graph_id = serverGraph[fetches[k].chat]]
    /\ last' = Record("fetchServer", 0, NoMessage)
    /\ UNCHANGED <<graphId, activeChatId, chats, activeChatGraphId, serverGraph, saved>>
    /\ UNCHANGED <<activeChat, isAiTyping, aiAnswer, langgraphJson, executionPath,
                   sockets, pending, builderVars>>

\* .then(chat => setGraphId(chat.graph_id ? Number(chat.graph_id) : null))
FetchResponse(k) ==
    /\ k \in 1..Len(fetches)
    /\ fetches[k].answered
    /\ graphId' = fetches[k].graph_id
    /\ fetches' = RemoveAt(fetches, k)
    /\ last' = Record("fetchResponse", 0, NoMessage)
    /\ UNCHANGED <<activeChatId, chats, activeChatGraphId, serverGraph, saved>>
    /\ UNCHANGED <<activeChat, isAiTyping, aiAnswer, langgraphJson, executionPath,
                   sockets, pending, builderVars>>

\* .catch(() => setGraphId(null)): the fetch rejects or its body is not JSON
FetchError(k) ==
    /\ k \in 1..Len(fetches)
    /\ graphId' = NoGraphId
    /\ fetches' = RemoveAt(fetches, k)
    /\ last' = Record("fetchError", 0, NoMessage)
    /\ UNCHANGED <<activeChatId, chats, activeChatGraphId, serverGraph, saved>>
    /\ UNCHANGED <<activeChat, isAiTyping, aiAnswer, langgraphJson, executionPath,
                   sockets, pending, builderVars>>

\* fetchChats: setChats(data) with the chats as the backend stores them
FetchChats ==
    /\ chats # serverGraph
    /\ chats' = serverGraph
    /\ last' = Record("fetchChats", 0, NoMessage)
    /\ UNCHANGED <<graphId, activeChatId, fetches, activeChatGraphId, serverGraph, saved>>
    /\ UNCHANGED <<activeChat, isAiTyping, aiAnswer, langgraphJson, executionPath,
                   sockets, pending, builderVars>>

\* the chat page: chats selected with their panel, the graph id fetched, a
\* one-agent graph saved, and runs launched with the graph id on screen
NextGraphOver(chatIds, outcomes, runs) ==
    \/ \E c \in chatIds : SelectChatMounted(c)
    \/ \E k \in 1..MaxFetches : FetchServer(k)
    \/ \E k \in 1..MaxFetches : FetchResponse(k)
    \/ \E k \in 1..MaxFetches : FetchError(k)
    \/ FetchChats
    \/ RosterChange(<<"A">>)
    \/ OnNodeClick("A")
    \/ HandleSaveGraph
    \/ \E o \in outcomes : SaveResponse(1, o)
    \/ HandleSubmit(EffectiveGraphId, runs)
    \/ \E k \in 1..runs : HandleAiAnswerNoGraph(k)
    \/ \E k \in 1..runs : HandleAiAnswer(k)

----------------------------------------------------------------------------
\* the callbacks of the event loop, with the inputs the environment draws from
NextOver(chatIds, messages, runs) ==
    \/ \E c \in chatIds \cup {NoChat} : SelectChat(c)
    \/ \E g \in GraphIds : HandleSubmit(g, runs)
    \/ \E k \in 1..runs : HandleAiAnswerNoGraph(k)
    \/ \E k \in 1..runs : HandleAiAnswer(k)
    \/ \E i \in 1..runs : OnOpen(i)
    \/ \E i \in 1..runs, m \in messages : OnMessage(i, m)
    \/ \E i \in 1..runs : OnError(i)
    \/ \E i \in 1..runs : OnClose(i)

\* Concurrent runs: up to MaxRuns submits over both chats; the events name one node.
Next == NextOver(Chats, MessagesOver({"X"}), MaxRuns)

Spec == Init /\ [][Next]_vars

\* One run of one chat, fed every event over two nodes.
NextRun == NextOver({1}, MessagesOver({"X", "Y"}), 1)

SpecRun == Init /\ [][NextRun]_vars

\* One run of one chat over the chain X -> Y -> Z: every node_output of the
\* three nodes, the graph, an error, and the stream_end that ends the chain.
ScenarioMessages ==
    {GraphJson(ChainGraph), ErrorEvent("boom"), StreamEnd(<<"X", "Y", "Z">>, "done")}
    \cup {NodeOutput(n, d) : n \in Nodes, d \in {Absent, "out"}}

NextScenario == NextOver({1}, ScenarioMessages, 1)

SpecScenario == Init /\ [][NextScenario]_vars

\* One run of one chat whose server also sends what the protocol does not
\* allow: an unknown type, text that is not JSON, a node_output without node;
\* and a node_output whose data is the empty string.
ProtocolMessages ==
    {UnknownTypeEvent, NotJson, GraphJson(ChainGraph), ErrorEvent("boom"),
     StreamEnd(<<"X">>, "done"), NodeOutput("X", "")}
    \cup {NodeOutput(n, d) : n \in {Absent, "X"}, d \in {Absent, "out"}}

NextProtocol == NextOver({1}, ProtocolMessages, 1)

SpecProtocol == Init /\ [][NextProtocol]_vars

\* The canvas: every roster and condition; a save that succeeds or is refused.
NextBuilder ==
    NextBuilderOver(Rosters, Conditions,
                    {Outcome("ok", Absent, 1), Outcome("network", Absent, NoGraphId)})

SpecBuilder == Init /\ [][NextBuilder]_vars

\* The graph id of a run: one chat, selected once; saves that succeed with
\* either id or fail; one run.
NextGraph ==
    NextGraphOver({1}, {Outcome("ok", Absent, g) : g \in AssignedIds}
                       \cup {Outcome("network", Absent, NoGraphId)}, 1)

SpecGraph == Init /\ [][NextGraph]_vars

\* The save: a canvas of one or two agents without conditions, and every way
\* the persistence endpoint can answer. A request in flight is answered.
NextSave == NextBuilderOver({<<"A">>, <<"A", "B">>}, {""}, SaveOutcomes)

SpecSave ==
    /\ Init /\ [][NextSave]_vars
    /\ WF_vars(\E o \in SaveOutcomes : SaveResponse(1, o))

\* The graph id across chats: both chats have a stored graph, chat c the graph
\* c, and the chat list is loaded; the chats are selected in any order, the
\* fetches of GraphProvider are answered in any order, and one run is launched.
InitFollow ==
    /\ activeChat = NoChat
    /\ isAiTyping = FALSE
    /\ aiAnswer = <<>>
    /\ langgraphJson = NullGraph
    /\ executionPath = <<>>
    /\ sockets = <<>>
    /\ pending = <<>>
    /\ last = Record("init", 0, NoMessage)
    /\ entryNode = NoEntry
    /\ nodes = <<>>
    /\ edges = <<>>
    /\ isSubmitting = FALSE
    /\ error = NoError
    /\ saves = <<>>
    /\ graphId = NoGraphId
    /\ activeChatId = NoChat
    /\ fetches = <<>>
    /\ chats = [c \in Chats |-> c]
    /\ activeChatGraphId = NoGraphId
    /\ serverGraph = [c \in Chats |-> c]
    /\ saved = NoSave

NextFollow ==
    \/ \E c \in Chats : SelectChatMounted(c)
    \/ \E k \in 1..MaxFetches : FetchServer(k)
    \/ \E k \in 1..MaxFetches : FetchResponse(k)
    \/ HandleSubmit(EffectiveGraphId, 1)
    \/ HandleAiAnswer(1)

SpecFollow == InitFollow /\ [][NextFollow]_vars

\* Two submits in one chat, with or without a graph id: a run that delivers its
\* graph and ends, and the submit that follows it; and submits without a chat.
NoticeMessages == {GraphJson(ChainGraph), StreamEnd(<<"X">>, "done")}

NextNotice ==
    \/ NextOver({1}, NoticeMessages, 2)
    \/ HandleSubmitNoChat

SpecNotice == Init /\ [][NextNotice]_vars

\* The trace renderer: a run of chat 1 that has delivered any graph over X, Y
\* and ended with any path over X, Y and '__start__'; its connection is still
\* open and delivers further node_output events until the server closes it.
InitRender ==
    /\ activeChat = 1
    /\ isAiTyping = FALSE
    /\ aiAnswer = Text("done")
    /\ langgraphJson \in RenderGraphs
    /\ executionPath \in SeqsUpTo({StartNode, "X", "Y"}, MaxPathLen)
    /\ sockets = <<[Socket(1, 1) EXCEPT !.readyState = "OPEN", !.sent = 1]>>
    /\ pending = <<>>
    /\ last = Record("onmessage", 1, StreamEnd(executionPath, "done"))
    /\ entryNode = NoEntry
    /\ nodes = <<>>
    /\ edges = <<>>
    /\ isSubmitting = FALSE
    /\ error = NoError
    /\ saves = <<>>
    /\ graphId = NoGraphId
    /\ activeChatId = NoChat
    /\ fetches = <<>>
    /\ chats = [c \in Chats |-> NoGraphId]
    /\ activeChatGraphId = NoGraphId
    /\ serverGraph = [c \in Chats |-> NoGraphId]
    /\ saved = NoSave

RenderMessages == {NodeOutput(n, Absent) : n \in {"X", "Y"}}

NextRender ==
    \/ \E m \in RenderMessages : OnMessage(1, m)
    \/ OnClose(1)

SpecRender == InitRender /\ [][NextRender]_vars

----------------------------------------------------------------------------
(* Properties *)

\* ChatCard: {aiAnswer && !isAiTyping && (<AnswerMessage/> <LanggraphViz/>)}
RendererShown == aiAnswer # <<>> /\ ~isAiTyping

IsCallback(r) == r.handler \in {"onmessage", "onerror", "onclose"}
IsEvent(r, type) == r.handler = "onmessage" /\ r.msg.type = type

\* the dependencies [langgraphJson, executionPath] of the useMemo, compared by
\* reference: graph_json and stream_end always store a new object, the
\* node_output updater returns prevPath itself when the node is included
GraphReplaced == langgraphJson' # langgraphJson \/ IsEvent(last', "graph_json")
PathReplaced ==
    \/ executionPath' # executionPath
    \/ IsEvent(last', "stream_end")
    \/ last'.handler = "handleAiAnswer" /\ last'.sock # 0

\* the step runs getLayoutedElements: LanggraphViz is mounted by the step, or
\* it was mounted and a dependency of its useMemo was replaced
LayoutRuns ==
    /\ RendererShown'
    /\ ~langgraphJson'.isNull
    /\ ~RendererShown \/ GraphReplaced \/ PathReplaced

\* C1: stale-stream isolation. Once a run is superseded (a later handleAiAnswer
\* has opened a newer socket), no message, transport error or close of the
\* earlier connection changes executionPath, langgraphJson, aiAnswer or
\* isAiTyping.
C1_StaleStreamIsolation ==
    [][(IsCallback(last') /\ last'.sock < Len(sockets)) => UNCHANGED execState]_vars

\* C2: at most one run connection is able to deliver events at any time.
C2_AtMostOneConnection ==
    Cardinality({i \in 1..Len(sockets) : Live(sockets[i])}) <= 1

\* C3: cancellation on navigation. When the user has just selected another chat
\* (or none) while a run's connection was open, the next message that
\* connection delivers changes neither executionPath, langgraphJson, aiAnswer
\* nor isAiTyping.
C3_NavigationCancels ==
    [][(/\ last.handler = "selectChat"
        /\ last'.handler = "onmessage"
        /\ sockets[last'.sock].chat # activeChat)
          => UNCHANGED execState]_vars

\* C4: authoritative override. Right after a stream_end event that carries a
\* path P the execution path is exactly P, whatever had been accumulated.
C4_AuthoritativeOverride ==
    (IsEvent(last, "stream_end") /\ last.msg.hasPath)
        => executionPath = last.msg.path

\* C4 witness: node_output of X and of Y (their sections are still in the
\* answer text, the path was [__start__, X, Y]), then a stream_end with path
\* [Y, X]: the path is [Y, X].
C4_Witness ==
    /\ last.msg = StreamEnd(<<"Y", "X">>, Absent)
    /\ aiAnswer = PlaceholderText \o Section("X", "out") \o Section("Y", "out")
    /\ executionPath = <<"Y", "X">>

\* C5 as stated: after node_output(n) a second delivery of node_output(n)
\* leaves the path as it is, and n occurs in the path exactly once.
C5_IdempotentExactlyOnce ==
    IsEvent(last, "node_output")
        => /\ NodeOutputPath(executionPath, last.msg.node) = executionPath
           /\ Count(executionPath, last.msg.node) = 1

\* C5 amended: after node_output(n) a second delivery of node_output(n) leaves
\* the path as it is and n occurs in it; exactly once when the path held n at
\* most once before the delivery.
C5_Idempotent ==
    [][IsEvent(last', "node_output")
          => /\ NodeOutputPath(executionPath', last'.msg.node) = executionPath'
             /\ Count(executionPath', last'.msg.node) >= 1
             /\ Count(executionPath, last'.msg.node) <= 1
                   => Count(executionPath', last'.msg.node) = 1]_vars

\* C5 witness: node_output(X) delivered twice in a row (two sections of X in
\* the answer text), X once in the path.
C5_Witness ==
    /\ last.msg = NodeOutput("X", "out")
    /\ aiAnswer = PlaceholderText \o Section("X", "out") \o Section("X", "out")
    /\ executionPath = <<StartNode, "X">>

\* C6 as stated: node_output(n) appends n exactly when n is not the last entry
\* of the path.
C6_AppendUnlessLast ==
    [][IsEvent(last', "node_output")
          => executionPath' =
                IF executionPath # <<>> /\ executionPath[Len(executionPath)] = last'.msg.node
                THEN executionPath
                ELSE Append(executionPath, last'.msg.node)]_vars

\* C6 amended: node_output(n) appends n exactly when n occurs nowhere in the
\* path; otherwise the path is unchanged.
C6_AppendUnlessIncluded ==
    [][IsEvent(last', "node_output")
          => executionPath' =
                IF \E j \in DOMAIN executionPath : executionPath[j] = last'.msg.node
                THEN executionPath
                ELSE Append(executionPath, last'.msg.node)]_vars

\* C6 witness: node_output of X, of Y (their sections are in the answer text)
\* and of X again: X is not the last entry, and the path still holds it once.
C6_Witness ==
    /\ last.msg = NodeOutput("X", Absent)
    /\ aiAnswer = PlaceholderText \o Section("X", "out") \o Section("Y", "out")
    /\ executionPath = <<StartNode, "X", "Y">>

\* C7 as stated: the execution path never contains a node id twice.
C7_NoDuplicates == NoDuplicates(executionPath)

\* C7 amended: a step that takes a duplicate-free path to a path with a
\* repeated node is a stream_end whose own path repeats a node; node_output
\* never introduces a duplicate.
C7_DuplicatesOnlyFromStreamEnd ==
    [][(NoDuplicates(executionPath) /\ ~NoDuplicates(executionPath'))
          => /\ IsEvent(last', "stream_end")
             /\ last'.msg.hasPath
             /\ ~NoDuplicates(last'.msg.path)
             /\ executionPath' = last'.msg.path]_vars

\* C7 witness: a stream_end whose path repeats X, then node_output(Y): the
\* repeated X stays and Y is appended once.
C7_Witness ==
    /\ IsEvent(last, "node_output")
    /\ last.msg.node = "Y"
    /\ executionPath = <<"X", "X", "Y">>

\* C8: a stream_end that follows an error event on the same connection is
\* applied in full: the path becomes its path, the run is no longer in
\* progress, and a present final_answer is the whole answer text.
C8_StreamEndAfterError ==
    [][(IsEvent(last, "error") /\ IsEvent(last', "stream_end") /\ last'.sock = last.sock)
          => /\ last'.msg.hasPath => executionPath' = last'.msg.path
             /\ isAiTyping' = FALSE
             /\ last'.msg.final_answer # Absent
                   => aiAnswer' = Text(last'.msg.final_answer)]_vars

\* C9: right after a stream_end whose final_answer is present (the empty
\* string included) the answer text is exactly that final_answer.
C9_FinalAnswerReplaces ==
    (IsEvent(last, "stream_end") /\ last.msg.final_answer # Absent)
        => aiAnswer = Text(last.msg.final_answer)

\* C10: the scenario. A freshly started run that received node_output of X, Y
\* and Z (path [__start__, X, Y, Z], the answer still the placeholder) and the
\* graph X->Y->Z, and now receives stream_end(path [X, Y, Z], "done"), ends
\* with path [X, Y, Z], edge X->Y on-path with number 1, edge Y->Z on-path
\* with number 2, and the answer text "done".
C10_Scenario ==
    [][(/\ executionPath = <<StartNode, "X", "Y", "Z">>
        /\ aiAnswer = PlaceholderText
        /\ langgraphJson = ChainGraph
        /\ last'.handler = "onmessage"
        /\ last'.msg = StreamEnd(<<"X", "Y", "Z">>, "done"))
          => /\ executionPath' = <<"X", "Y", "Z">>
             /\ aiAnswer' = Text("done")
             /\ initialEdges(langgraphJson', executionPath') =
                   <<[source |-> "X", target |-> "Y", animated |-> TRUE, label |-> 1],
                     [source |-> "Y", target |-> "Z", animated |-> TRUE, label |-> 2]>>]_vars

\* C10 witness: the final state of the scenario.
C10_Witness ==
    /\ last.msg = StreamEnd(<<"X", "Y", "Z">>, "done")
    /\ executionPath = <<"X", "Y", "Z">>
    /\ aiAnswer = Text("done")
    /\ langgraphJson = ChainGraph
    /\ ~isAiTyping
    /\ initialEdges(langgraphJson, executionPath)[2].label = 2

\* C11: partial trace retained. A transport error or a close of the run's
\* connection, wherever in the event sequence it comes, leaves executionPath
\* and langgraphJson exactly as they were.
C11_PartialTraceRetained ==
    [][last'.handler \in {"onerror", "onclose"}
          => UNCHANGED <<executionPath, langgraphJson>>]_vars

\* C11 witness: the graph and node_output of X and Y were received, then the
\* connection failed: the path and the graph are still there.
C11_Witness ==
    /\ last.handler = "onerror"
    /\ aiAnswer = ConnectionErrorText
    /\ executionPath = <<StartNode, "X", "Y">>
    /\ langgraphJson = ChainGraph

\* C12: a connection that fails or closes while the run is still in progress
\* (no stream_end and no error event were received) ends the run in a state
\* that differs from the state a stream_end reporting the accumulated path
\* would have ended it in.
C12_FailureDistinguishable ==
    [][(isAiTyping /\ last'.handler \in {"onerror", "onclose"})
          => LET m == StreamEnd(executionPath, Absent)
             IN  execState' # <<StreamEndPath(executionPath, m), langgraphJson,
                                StreamEndAnswer(aiAnswer, m.final_answer), FALSE>>]_vars

\* a message the protocol does not allow
IsProtocolError(m) ==
    \/ m.type \notin {"graph_json", "node_output", "stream_end", "error"}
    \/ m.type = "node_output" /\ m.node = Absent

\* C13: protocol errors are skipped. A message with an unknown type, text that
\* is not JSON, or a node_output without a node field leaves executionPath,
\* langgraphJson and aiAnswer unchanged and the connection open for the
\* events after it.
C13_ProtocolErrorsSkipped ==
    [][(last'.handler = "onmessage" /\ IsProtocolError(last'.msg))
          => /\ UNCHANGED <<executionPath, langgraphJson, aiAnswer>>
             /\ sockets'[last'.sock].readyState = "OPEN"]_vars

\* C14: a save requested while no entry node is set sends no request, sets
\* the validation message, leaves the builder not submitting, and leaves
\* nodes, edges and the active graph id as they were.
C14_MissingEntryBlocksSave ==
    [][(last'.handler = "handleSaveGraph" /\ entryNode = NoEntry)
          => /\ saves' = saves
             /\ error' = MissingEntryText
             /\ ~isSubmitting'
             /\ UNCHANGED <<nodes, edges, graphId>>]_vars

\* C14 witness: a graph with an edge was saved (id 1), the entry node was
\* then cleared and the save requested again: refused, nothing in flight.
C14_Witness ==
    /\ last.handler = "handleSaveGraph"
    /\ entryNode = NoEntry
    /\ error = MissingEntryText
    /\ ~isSubmitting
    /\ saves = <<>>
    /\ edges # <<>>
    /\ graphId = 1

C16_ReferentialIntegrity ==
    LET def == graphData(activeChat, nodes, edges, entryNode)
        ids == {def.nodes[i].id_in_graph : i \in 1..Len(def.nodes)}
    IN  /\ \A i \in 1..Len(edges) :
              edges[i].source \in NodeIds(nodes) /\ edges[i].target \in NodeIds(nodes)
        /\ entryNode # NoEntry => entryNode \in NodeIds(nodes)
        /\ \A i \in 1..Len(def.edges) :
              /\ def.edges[i].from_node_id_in_graph \in ids
              /\ def.edges[i].to_node_id_in_graph \in ids
        /\ def.entry_node_id_in_graph # NoEntry => def.entry_node_id_in_graph \in ids

EdgesBetween(eds, s, t) == {i \in 1..Len(eds) : eds[i].source = s /\ eds[i].target = t}

\* C17: edge coalescing. Connecting s -> t when an edge s -> t exists leaves
\* the edges as they are; and when s -> t exists once with condition "yes",
\* connecting s -> t again and giving "no" as the condition leaves two edges
\* from s to t, one with "yes" and one with "no".
C17_EdgeCoalescing ==
    /\ [][(last'.handler = "onConnect"
            /\ connectionExists(last'.msg.source, last'.msg.target, edges))
              => edges' = edges]_vars
    /\ [][(/\ last.handler = "onConnect"
            /\ last'.handler = "onEdgeContextMenu"
            /\ EdgeId(last'.msg) = EdgeId(last.msg)
            /\ last'.msg.label = "no"
            /\ \E i \in 1..Len(edges) :
                  edges[i] = BuilderEdge(last.msg.source, last.msg.target, "yes"))
              => LET between == EdgesBetween(edges', last.msg.source, last.msg.target)
                 IN  /\ Cardinality(between) = 2
                     /\ {edges'[i].label : i \in between} = {"yes", "no"}]_vars

\* C18: no stale identifier window. Once a save of the chat on screen has
\* succeeded with identifier g, and until another save is requested or another
\* chat is selected, every run launched holds g as its graph id, opens its
\* connection against g, and is never refused for a missing graph.
C18_NoStaleIdentifier ==
    [][(last'.handler = "handleSubmit" /\ saved.id # NoGraphId /\ saved.chat = activeChat)
          => pending'[Len(pending')].graphId = saved.id]_vars

\* C19: the builder never stays submitting. A save in progress ends; a save
\* refused for its missing entry node and every answer of the endpoint leave
\* the builder not submitting, so that the save button works again as long as
\* the canvas has a node; every failing outcome leaves an error message.
C19_SaveSettles ==
    /\ isSubmitting ~> ~isSubmitting
    /\ [][last'.handler \in {"handleSaveGraph", "saveResponse"}
              => /\ last'.handler = "saveResponse" => ~isSubmitting'
                 /\ (last'.handler = "handleSaveGraph" /\ ~last'.msg.sent)
                       => ~isSubmitting' /\ error' \notin {NoError, ""}
                 /\ (last'.handler = "saveResponse" /\ SaveFails(last'.msg))
                       => error' \notin {NoError, ""}
                 /\ (~isSubmitting' /\ Len(nodes') >= 1)
                       => activeChat' # NoChat]_vars

\* C19 witness: fetch rejected; the message is set and the builder idle.
C19_Witness ==
    /\ last.handler = "saveResponse"
    /\ last.msg.kind = "network"
    /\ error = FetchFailedText
    /\ ~isSubmitting
    /\ saves = <<>>
    /\ Len(nodes) >= 1

\* C20: a failed save does not corrupt the working graph. Neither the save
\* request nor the failure of its persistence request (fetch rejected, a
\* non-2xx response, an unreadable body) changes nodes, edges, entryNode or
\* the active graph id.
C20_FailedSaveKeepsGraph ==
    [][(\/ last'.handler = "handleSaveGraph"
        \/ last'.handler = "saveResponse" /\ SaveFails(last'.msg))
          => UNCHANGED <<nodes, edges, entryNode, graphId>>]_vars

\* C20 witness: graph 2 was saved; a later save of the graph with an edge is
\* refused by the endpoint with a detail: the graph and the id are kept.
C20_Witness ==
    /\ last.handler = "saveResponse"
    /\ last.msg = Outcome("not_ok", "detail", NoGraphId)
    /\ error = "detail"
    /\ graphId = 2
    /\ entryNode = "A"
    /\ edges = <<BuilderEdge("A", "B", Absent)>>

\* C21: edge emphasis and sequence numbers. For every graph and every execution
\* path the renderer marks an edge as on-path exactly when its source and target
\* occur as a consecutive pair of the path; the edge's sequence number is then
\* the 1-based position of the first such pair, and an edge that is not on-path
\* carries no sequence number.
C21_EdgeEmphasis ==
    (RendererShown /\ ~langgraphJson.isNull) =>
        LET r == layoutedElements(langgraphJson, executionPath).edges
        IN  /\ Len(r) = Len(langgraphJson.edges)
            /\ \A i \in 1..Len(langgraphJson.edges) :
                  LET e == langgraphJson.edges[i]
                      occ == {j \in 1..(Len(executionPath) - 1) :
                                 /\ executionPath[j] = e.source
                                 /\ executionPath[j + 1] = e.target}
                  IN  /\ r[i].animated <=> occ # {}
                      /\ occ # {} => r[i].label = Min(occ)
                      /\ occ = {} => r[i].label = NoOrder

\* the pair X, X occurs twice on the path and the edge X -> Y not at all
C21_Witness ==
    /\ RendererShown
    /\ executionPath = <<"X", "X", "X">>
    /\ langgraphJson.edges = <<Edge("X", "X"), Edge("X", "Y")>>
    /\ layoutedElements(langgraphJson, executionPath).edges =
          <<[source |-> "X", target |-> "X", animated |-> TRUE, label |-> 1],
            [source |-> "X", target |-> "Y", animated |-> FALSE, label |-> NoOrder]>>

\* the path with every id that is not a node of the graph replaced by one
\* foreign id
Foreign == "<foreign>"
WithoutForeignIds(graph, path) ==
    [i \in 1..Len(path) |->
        IF path[i] \in pathNodes(graph.nodes) THEN path[i] ELSE Foreign]

\* C22: the trace renderer tolerates stale paths. For every graph and every
\* execution path the renderer does not fail, it renders exactly the graph's own
\* nodes and edges, in the graph's order, and the ids of the path that are not
\* nodes of the graph ('__start__', ids of a stale definition) are ignored:
\* which foreign id stands in the path makes no difference to any flag.
C22_StalePathTolerated ==
    (RendererShown /\ ~langgraphJson.isNull) =>
        LET r == layoutedElements(langgraphJson, executionPath)
        IN  /\ ~r.failed
            /\ Len(r.nodes) = Len(langgraphJson.nodes)
            /\ \A i \in 1..Len(r.nodes) : r.nodes[i].id = langgraphJson.nodes[i]
            /\ Len(r.edges) = Len(langgraphJson.edges)
            /\ \A i \in 1..Len(r.edges) :
                  /\ r.edges[i].source = langgraphJson.edges[i].source
                  /\ r.edges[i].target = langgraphJson.edges[i].target
            /\ r = layoutedElements(langgraphJson,
                                    WithoutForeignIds(langgraphJson, executionPath))

\* the graph has the node X only; the path also names '__start__' and Y
C22_Witness ==
    /\ RendererShown
    /\ langgraphJson.nodes = <<"X">>
    /\ langgraphJson.edges = <<Edge("X", "X")>>
    /\ executionPath = <<StartNode, "X", "Y">>
    /\ layoutedElements(langgraphJson, executionPath) =
          [failed |-> FALSE,
           nodes |-> <<[id |-> "X", border |-> "2px solid #10B981",
                        background |-> "#ddf4e4", opacity |-> 10]>>,
           edges |-> <<[source |-> "X", target |-> "X",
                        animated |-> FALSE, label |-> NoOrder]>>]

\* a rendered edge with everything the renderer gives it
RenderedEdge(e) == [edge |-> e, style |-> EdgeStyle(e)]

\* C24: the de-emphasis rule. An element is de-emphasized when it is not
\* emphasized and is rendered differently from its pre-run rendering (the
\* rendering with the empty path). Whenever the execution path is non-empty,
\* every node and every edge that is not on-path is de-emphasized and every
\* on-path one is not; whenever the path is empty, no node and no edge is
\* de-emphasized and all nodes, and all edges, have one style.
C24_DeEmphasis ==
    (RendererShown /\ ~langgraphJson.isNull) =>
        LET r == layoutedElements(langgraphJson, executionPath)
            pre == layoutedElements(langgraphJson, <<>>)
            nodeOnPath(i) == r.nodes[i].id \in pathNodes(executionPath)
            edgeOnPath(i) == \E j \in 1..(Len(executionPath) - 1) :
                                /\ executionPath[j] = r.edges[i].source
                                /\ executionPath[j + 1] = r.edges[i].target
            nodeDeEmphasized(i) == ~nodeOnPath(i) /\ r.nodes[i] # pre.nodes[i]
            edgeDeEmphasized(i) ==
                ~edgeOnPath(i) /\ RenderedEdge(r.edges[i]) # RenderedEdge(pre.edges[i])
        IN  IF hasPath(executionPath)
            THEN /\ \A i \in 1..Len(r.nodes) : nodeDeEmphasized(i) <=> ~nodeOnPath(i)
                 /\ \A i \in 1..Len(r.edges) : edgeDeEmphasized(i) <=> ~edgeOnPath(i)
            ELSE /\ \A i \in 1..Len(r.nodes) : ~nodeDeEmphasized(i)
                 /\ \A i \in 1..Len(r.edges) : ~edgeDeEmphasized(i)
                 /\ \A i, j \in 1..Len(r.nodes) :
                       [r.nodes[i] EXCEPT !.id = ""] = [r.nodes[j] EXCEPT !.id = ""]
                 /\ \A i, j \in 1..Len(r.edges) :
                       EdgeStyle(r.edges[i]) = EdgeStyle(r.edges[j])

\* C23: the layout is recomputed only on structural change. A node_output or
\* stream_end event that arrives while the renderer shows a graph structure and
\* leaves that structure unchanged runs no layout.
C23_LayoutOnlyOnStructuralChange ==
    [][(/\ IsEvent(last', "node_output") \/ IsEvent(last', "stream_end")
        /\ RendererShown
        /\ ~langgraphJson.isNull
        /\ langgraphJson' = langgraphJson)
          => ~LayoutRuns]_vars

\* C25: answer accumulation on node_output. Every node_output event whose data
\* is present appends exactly one labeled section for its node to the answer
\* text, also when its node is already in the execution path (the path is then
\* unchanged); a node_output event without data leaves the answer text unchanged.
C25_AnswerAccumulation ==
    [][IsEvent(last', "node_output") =>
          IF last'.msg.data # Absent
          THEN /\ aiAnswer' = aiAnswer \o Section(last'.msg.node, last'.msg.data)
               /\ Includes(executionPath, last'.msg.node)
                     => executionPath' = executionPath
          ELSE aiAnswer' = aiAnswer]_vars

\* C27: each run starts from a fresh execution state. While the connection of
\* the most recently started run is still connecting, so that no event of that
\* run has been applied, the execution path is exactly <<'__start__'>>, the graph
\* structure is cleared and the answer text is the placeholder.
C27_FreshExecutionState ==
    (sockets # <<>> /\ sockets[Len(sockets)].readyState = "CONNECTING") =>
        /\ executionPath = <<StartNode>>
        /\ langgraphJson = NullGraph
        /\ aiAnswer = PlaceholderText

C28_RendererHasGraph == RendererShown => ~langgraphJson.isNull

\* C30: a run request without a graph id or without an active chat opens no
\* connection and sends no initiation message; it sets the answer text to the
\* 'create a graph first' notice and leaves the execution path and the graph
\* structure unchanged; the in-progress flag is not raised: it keeps the value
\* false that it had before the submit and that sendMessage left.
C30_RequestWithoutGraph ==
    [][(last'.handler = "handleAiAnswer" /\ last'.sock = 0)
          => /\ sockets' = sockets
             /\ aiAnswer' = NoticeText
             /\ executionPath' = executionPath
             /\ langgraphJson' = langgraphJson
             /\ isAiTyping' = FALSE]_vars

\* C30 witness: the first run ended with the path <<X>> on the chain graph; the
\* second submit had no graph id and left both in place, with one connection.
C30_Witness ==
    /\ last.handler = "handleAiAnswer"
    /\ last.sock = 0
    /\ aiAnswer = NoticeText
    /\ executionPath = <<"X">>
    /\ langgraphJson = ChainGraph
    /\ ~isAiTyping
    /\ Len(sockets) = 1
    /\ sockets[1].sent = 1

\* C29: the current graph id follows the active chat. Once all in-flight
\* fetches have settled, the current graph id is the graph id of the most
\* recently selected chat, and every run, requested or opened, carries the
\* graph id of the chat whose id it carries.
C29_GraphIdFollowsChat ==
    /\ (fetches = <<>> /\ activeChatId # NoChat) => graphId = serverGraph[activeChatId]
    /\ \A i \in 1..Len(pending) : pending[i].graphId = serverGraph[pending[i].chat]
    /\ \A i \in 1..Len(sockets) : sockets[i].graphId = serverGraph[sockets[i].chat]


====
